---- MODULE Spec2Model ----
(***************************************************************************)
(* sync_github_to_sheets.py: one run of the script fetches the pull        *)
(* requests of a repository from the GitHub REST API (paginated, with a    *)
(* sleep-and-retry on rate limiting) and writes either one row per pull    *)
(* request ("rows" mode) or per-account counts ("tracker" mode) into a     *)
(* worksheet of a Google spreadsheet.  The spreadsheet outlives the run,   *)
(* so the model lets the script run several times over the same data.      *)
(***************************************************************************)
EXTENDS Integers, Sequences, FiniteSets, TLC

(***************************************************************************)
(* Bounds of the model.                                                    *)
(***************************************************************************)
\* pull requests in the repository
MaxPRs == 3
\* items the server puts on one page (per_page, scaled down)
PageSize == 2
\* the retry counter of one page request saturates here
MaxRetries == 1
\* runs of the script over the same spreadsheet
MaxRuns == 2

(***************************************************************************)
(* Program constants.                                                      *)
(***************************************************************************)
DEFAULT_SHEET_NAME == "Sheet1"
DEFAULT_TRACKER_SHEET_NAME == "Tracker"
WsNames == {DEFAULT_SHEET_NAME, DEFAULT_TRACKER_SHEET_NAME}

\* Python's None and the empty string are both falsy; text that is absent
\* is the empty string, an absent datetime is NoDate.
None == ""
NoDate == -1

(***************************************************************************)
(* Text.  A login is a string; Ord gives its code points, on which         *)
(* str.lower() and the ordering of strings are computed.                   *)
(***************************************************************************)
Logins == {"al", "Bo", "cy"}

Ord(s) ==
    CASE s = "al" -> <<97, 108>>
      [] s = "Bo" -> <<66, 111>>
      [] s = "cy" -> <<99, 121>>
      [] OTHER -> <<>>

LowerCode(c) == IF c \in 65..90 THEN c + 32 ELSE c

StrLower(cs) == [i \in 1..Len(cs) |-> LowerCode(cs[i])]

RECURSIVE CodesLess(_, _)
CodesLess(a, b) ==
    IF b = <<>> THEN FALSE
    ELSE IF a = <<>> THEN TRUE
    ELSE IF a[1] # b[1] THEN a[1] < b[1]
    ELSE CodesLess(Tail(a), Tail(b))

(***************************************************************************)
(* Timestamps.  An ISO-8601 text carries a local hour and a UTC offset;    *)
(* isoparse turns it into an instant (hours, UTC).                         *)
(***************************************************************************)
Stamps == {"10:00Z", "12:00+02:00", "11:00Z", "09:00-03:00"}

IsoFields(s) ==
    CASE s = "10:00Z"      -> [hour |-> 10, offset |-> 0]
      [] s = "12:00+02:00" -> [hour |-> 12, offset |-> 2]
      [] s = "11:00Z"      -> [hour |-> 11, offset |-> 0]
      [] s = "09:00-03:00" -> [hour |-> 9, offset |-> -3]

isoparse(value) == IsoFields(value).hour - IsoFields(value).offset

parse_iso8601(value) == IF value = None THEN NoDate ELSE isoparse(value)

(***************************************************************************)
(* The repository on GitHub: pull requests with their issue events and     *)
(* commits.  The pulls endpoint lists them newest first.                   *)
(***************************************************************************)
Event(kind, actor, at, reviewer, team) ==
    [event |-> kind, actor |-> actor, created_at |-> at,
     requested_reviewer |-> reviewer, requested_team |-> team]

PullRequest(n, user, st, merged, mergedBy, closed, evs, cms) ==
    [number |-> n, title |-> "PR " \o ToString(n), user |-> user,
     created_at |-> "10:00Z", html_url |-> "pull/" \o ToString(n),
     state |-> st, merged_at |-> merged, merged_by |-> mergedBy,
     closed_at |-> closed, events |-> evs, commits |-> cms]

PRPool ==
    { PullRequest(1, "cy", "open", None, None, None,
          << Event("commented", "al", "10:00Z", None, None) >>,
          <<"11:00Z">>),
      PullRequest(2, "al", "closed", "11:00Z", "cy", "11:00Z",
          << Event("labeled", "Bo", "10:00Z", None, None),
             Event("review_requested", "Bo", "10:00Z", "cy", None),
             Event("review_requested", "al", "11:00Z", None, "core") >>,
          <<"12:00+02:00", "11:00Z", None>>),
      PullRequest(3, "Bo", "closed", None, None, "11:00Z",
          << Event("review_requested", None, "12:00+02:00", "al", None),
             Event("review_requested", "cy", "11:00Z", "al", None) >>,
          <<"09:00-03:00", "10:00Z", "11:00Z">>),
      PullRequest(4, None, "open", None, None, None,
          << Event("review_requested", "cy", "11:00Z", None, None) >>,
          <<>>),
      PullRequest(5, "Bo", "open", None, None, None,
          << Event("review_requested", "al", "11:00Z", "cy", None) >>,
          <<"10:00Z", "09:00-03:00">>) }

RECURSIVE NewestFirst(_)
NewestFirst(S) ==
    IF S = {} THEN <<>>
    ELSE LET top == CHOOSE p \in S : \A q \in S : q.number <= p.number
         IN  <<top>> \o NewestFirst(S \ {top})

Repos == { NewestFirst(S) : S \in { T \in SUBSET PRPool : Cardinality(T) <= MaxPRs } }

(***************************************************************************)
(* The GitHub server.  An endpoint's items are served in pages of          *)
(* PageSize; a URL is the number of a page (the first URL is page 1, 0 is  *)
(* "no URL"), and a page's Link header names its neighbours.               *)
(***************************************************************************)
Endpoint(kind, number) == [kind |-> kind, number |-> number]

NoEndpoint == Endpoint("none", 0)

PRByNumber(rp, n) == CHOOSE i \in 1..Len(rp) : rp[i].number = n

ItemsOf(rp, ep) ==
    CASE ep.kind = "pulls"   -> rp
      [] ep.kind = "events"  -> rp[PRByNumber(rp, ep.number)].events
      [] ep.kind = "commits" -> rp[PRByNumber(rp, ep.number)].commits
      [] OTHER -> <<>>

Min(a, b) == IF a < b THEN a ELSE b

NumPages(items) ==
    IF Len(items) = 0 THEN 1 ELSE (Len(items) + PageSize - 1) \div PageSize

PageItems(items, p) ==
    SubSeq(items, (p - 1) * PageSize + 1, Min(p * PageSize, Len(items)))

\* <prev>; rel="prev", <next>; rel="next", <last>; rel="last", <first>; rel="first"
LinkHeader(items, p) ==
    (IF p > 1 THEN <<[url |-> p - 1, rel |-> "prev"]>> ELSE <<>>)
    \o (IF p < NumPages(items)
        THEN <<[url |-> p + 1, rel |-> "next"], [url |-> NumPages(items), rel |-> "last"]>>
        ELSE <<>>)
    \o (IF p > 1 THEN <<[url |-> 1, rel |-> "first"]>> ELSE <<>>)

\* What the server can answer: a status line and the X-RateLimit-Remaining header.
Statuses == {200, 403, 500}
Remainings == {"0", "1"}

(***************************************************************************)
(* paginate                                                                *)
(***************************************************************************)
\* lines 112-122: the URL of the first part of the Link header with rel="next"
NextUrl_first(link) == IF link = <<>> THEN 0 ELSE link[1].url

RECURSIVE NextUrl(_)
NextUrl(link) ==
    IF link = <<>> THEN 0
    ELSE IF link[1].rel = "next" THEN link[1].url
    ELSE NextUrl(Tail(link))

\* line 97
IsRateLimited(status, remaining) == status = 403 /\ remaining = "0"

\* line 103, resp.raise_for_status()
RaisesForStatus_never(status) == FALSE

RaisesForStatus(status) == status >= 400

\* The generator's frame: paginate(session, url, params) before its first request.
NewPaginate(ep) ==
    [ep |-> ep, url |-> 1, params |-> TRUE, out |-> <<>>,
     retries |-> 0, sleeping |-> FALSE,
     sent |-> [url |-> 0, params |-> FALSE], asked |-> <<>>]

NoPaginate == [NewPaginate(NoEndpoint) EXCEPT !.url = 0]

\* line 101-102: the rate-limited request will be sent again after the sleep
PgRateLimited(pg) ==
    [pg EXCEPT !.sleeping = TRUE,
               !.retries = Min(pg.retries + 1, MaxRetries),
               !.sent = [url |-> pg.url, params |-> pg.params]]

\* lines 104-124: yield the page's items, follow the Link header
PgSuccess(pg, rp) ==
    LET items == ItemsOf(rp, pg.ep)
    IN  [pg EXCEPT !.out = pg.out \o PageItems(items, pg.url),
                   !.url = NextUrl(LinkHeader(items, pg.url)),
                   !.params = FALSE,
                   !.retries = 0,
                   !.sent = [url |-> pg.url, params |-> pg.params],
                   !.asked = Append(pg.asked, pg.url)]

(***************************************************************************)
(* load_configuration.  The environment of a run: where a token comes      *)
(* from, whether the required settings are present, MODE and TRACK_BY.     *)
(***************************************************************************)
Envs ==
    [token    : {"GH_TOKEN", "GH_TOKEN_FILE", "GH_TOKEN_FILE missing", "gh", "absent"},
     required : BOOLEAN,
     MODE     : {"rows", "tracker", "both"},
     TRACK_BY : {"creator", "requester", "reviewer"}]

\* The SystemExit message of load_configuration, None when it returns a config.
ConfigError(env) ==
    IF env.token = "GH_TOKEN_FILE missing" THEN "GH_TOKEN_FILE not found"
    ELSE IF ~env.required \/ env.token = "absent" THEN "Missing configuration"
    ELSE IF env.MODE \notin {"rows", "tracker"} THEN "MODE must be either 'rows' or 'tracker'"
    ELSE IF env.TRACK_BY \notin {"creator", "requester"}
         THEN "TRACK_BY must be either 'creator' or 'requester'"
    ELSE None

Config(env) == [MODE |-> env.MODE, TRACK_BY |-> env.TRACK_BY]

NoConfig == [MODE |-> None, TRACK_BY |-> None]

(***************************************************************************)
(* The worksheet: its rows from row 1 down, a row being its cells up to    *)
(* the last non-empty one (so an empty row is <<>>).  Values are entered   *)
(* as typed text (USER_ENTERED).                                           *)
(***************************************************************************)
Cell(n) == ToString(n)

row_values(wsRows, r) == IF r <= Len(wsRows) THEN wsRows[r] ELSE <<>>

\* values.append puts the new rows below the last row that holds data
append_row(wsRows, values) == Append(wsRows, values)

append_rows_api(wsRows, values) == wsRows \o values

Headers ==
    <<"PR #", "Task Title", "Creator", "Created At", "Marked Done (Review Requested)",
      "Reviewers", "Updates After Done", "Finalized By", "Finalized At", "PR URL">>

TrackerHeaders == <<"Account", "Count">>

\* ensure_headers, lines 248-253: the worksheet's rows afterwards
ensure_headers_always(wsRows) == append_row(wsRows, Headers)

ensure_headers(wsRows) ==
    IF row_values(wsRows, 1) = <<>> THEN append_row(wsRows, Headers)
    ELSE wsRows

\* ensure_tracker_headers, lines 257-260
ensure_tracker_headers(wsRows) ==
    IF row_values(wsRows, 1) = <<>> THEN append_row(wsRows, TrackerHeaders)
    ELSE wsRows

\* append_rows, lines 264-266
append_rows_first(wsRows, newRows) ==
    IF newRows = <<>> THEN wsRows ELSE append_row(wsRows, newRows[1])

append_rows(wsRows, newRows) ==
    IF newRows = <<>> THEN wsRows ELSE append_rows_api(wsRows, newRows)

(***************************************************************************)
(* summarize_pr                                                            *)
(***************************************************************************)
RECURSIVE SelectSeq2(_, _)
SelectSeq2(s, kind) ==
    IF s = <<>> THEN <<>>
    ELSE IF s[1].event = kind THEN <<s[1]>> \o SelectSeq2(Tail(s), kind)
    ELSE SelectSeq2(Tail(s), kind)

\* line 159 and line 274
ReviewEvents(events) == SelectSeq2(events, "review_requested")

\* line 160
MarkedDoneAt(events) ==
    LET re == ReviewEvents(events)
    IN  IF re # <<>> THEN re[1].created_at ELSE None

\* lines 162-171
RECURSIVE Reviewers(_)
Reviewers(re) ==
    IF re = <<>> THEN <<>>
    ELSE (IF re[1].requested_reviewer # None THEN <<re[1].requested_reviewer>>
          ELSE IF re[1].requested_team # None THEN <<"team:" \o re[1].requested_team>>
          ELSE <<>>)
         \o Reviewers(Tail(re))

\* lines 173-174
RECURSIVE Unique(_, _)
Unique(s, seen) ==
    IF s = <<>> THEN <<>>
    ELSE IF s[1] \in seen THEN Unique(Tail(s), seen)
    ELSE <<s[1]>> \o Unique(Tail(s), seen \cup {s[1]})

RECURSIVE Join(_)
Join(s) ==
    IF s = <<>> THEN None
    ELSE IF Len(s) = 1 THEN s[1]
    ELSE s[1] \o ", " \o Join(Tail(s))

\* line 184
IsAfter_orEqual(commit_dt, md_dt) ==
    commit_dt # NoDate /\ md_dt # NoDate /\ commit_dt >= md_dt

IsAfter(commit_dt, md_dt) ==
    commit_dt # NoDate /\ md_dt # NoDate /\ commit_dt > md_dt

\* lines 177-185; the commits are those fetched when marked_done_at is set
RECURSIVE UpdatesAfterDone(_, _)
UpdatesAfterDone(marked_done_at, commits) ==
    IF marked_done_at = None \/ commits = <<>> THEN 0
    ELSE (IF IsAfter(parse_iso8601(commits[1]), parse_iso8601(marked_done_at)) THEN 1 ELSE 0)
         + UpdatesAfterDone(marked_done_at, Tail(commits))

\* lines 188-206
SummaryRow(pr, events, commits) ==
    LET marked_done_at == MarkedDoneAt(events)
        reviewers_unique == Unique(Reviewers(ReviewEvents(events)), {})
        finalized_by == IF pr.merged_at # None THEN pr.merged_by ELSE None
        finalized_at == IF pr.merged_at # None THEN pr.merged_at
                        ELSE IF pr.state = "closed" THEN pr.closed_at ELSE None
    IN  << Cell(pr.number), pr.title, pr.user, pr.created_at, marked_done_at,
           Join(reviewers_unique), Cell(UpdatesAfterDone(marked_done_at, commits)),
           finalized_by, finalized_at, pr.html_url >>

(***************************************************************************)
(* compute_tracker_counts and the ordering of the tracker rows             *)
(***************************************************************************)
\* lines 279-282
TrackedAccount_last(pr, review_events, track_by) ==
    IF track_by = "creator" THEN pr.user ELSE review_events[Len(review_events)].actor

TrackedAccount(pr, review_events, track_by) ==
    IF track_by = "creator" THEN pr.user ELSE review_events[1].actor

\* line 285: counts is a dict, kept here as its items in insertion order
Increment(counts, account) ==
    IF \E k \in 1..Len(counts) : counts[k].account = account
    THEN [k \in 1..Len(counts) |->
            IF counts[k].account = account
            THEN [counts[k] EXCEPT !.count = @ + 1] ELSE counts[k]]
    ELSE Append(counts, [account |-> account, count |-> 1])

\* lines 274-285, one pull request
CountPR(counts, pr, events, track_by) ==
    LET review_events == ReviewEvents(events)
    IN  IF review_events = <<>> THEN counts
        ELSE IF TrackedAccount(pr, review_events, track_by) = None THEN counts
        ELSE Increment(counts, TrackedAccount(pr, review_events, track_by))

\* line 318, key=lambda kv: (-kv[1], kv[0].lower())
KeyLess_raw(a, b) ==
    \/ a.count > b.count
    \/ a.count = b.count /\ CodesLess(Ord(a.account), Ord(b.account))

KeyLess(a, b) ==
    \/ a.count > b.count
    \/ a.count = b.count /\ CodesLess(StrLower(Ord(a.account)), StrLower(Ord(b.account)))

\* sorted() is stable: an item goes before the first one with a greater key
RECURSIVE InsertSorted(_, _)
InsertSorted(s, x) ==
    IF s = <<>> THEN <<x>>
    ELSE IF KeyLess(x, s[1]) THEN <<x>> \o s
    ELSE <<s[1]>> \o InsertSorted(Tail(s), x)

RECURSIVE Sorted(_)
Sorted(items) ==
    IF items = <<>> THEN <<>>
    ELSE InsertSorted(Sorted(SubSeq(items, 1, Len(items) - 1)), items[Len(items)])

\* line 318
TrackerRows(counts) ==
    LET s == Sorted(counts)
    IN  [k \in 1..Len(s) |-> <<s[k].account, Cell(s[k].count)>>]

(***************************************************************************)
(* State                                                                   *)
(***************************************************************************)
VARIABLES
    repo,       \* GitHub: the repository's pull requests
    sheets,     \* Google: the spreadsheet's worksheets, by title
    initial,    \* the worksheets as they were before the first run
    before,     \* the worksheets as they were when the current run started
    run,        \* number of runs started
    cfg,        \* the config dict of the current run
    pc,         \* where the current run stands in main()
    exit,       \* the exit status of the last run
    msg,        \* the SystemExit message of the last run
    pg,         \* the frame of the paginate generator being consumed
    prs,        \* main: the fetched pull requests
    idx,        \* index in prs of the pull request being processed
    evs,        \* summarize_pr: the events fetched for prs[idx]
    rows,       \* main: the rows built so far (rows mode)
    counts,     \* compute_tracker_counts: the counts so far
    ws,         \* the title of the connected worksheet
    reqs,       \* endpoints a request of this run was sent to
    wsOps,      \* whether this run performed a spreadsheet operation
    log         \* failures seen by this run

vars == <<repo, sheets, initial, before, run, cfg, pc, exit, msg, pg, prs, idx, evs,
          rows, counts, ws, reqs, wsOps, log>>

NotExited == -1

Worksheet(wsRows) == [exists |-> TRUE, rows |-> wsRows]
NoWorksheet == [exists |-> FALSE, rows |-> <<>>]

\* What the two worksheets may hold before the first run.
Spreadsheet(sheet1, tracker) ==
    (DEFAULT_SHEET_NAME :> sheet1) @@ (DEFAULT_TRACKER_SHEET_NAME :> tracker)

InitialSheets ==
    { Spreadsheet(NoWorksheet, NoWorksheet),
      Spreadsheet(Worksheet(<<>>), Worksheet(<<>>)),
      Spreadsheet(Worksheet(<< <<"My", "Columns">> >>),
                  Worksheet(<< TrackerHeaders, <<"zed", "7">>, <<"al", "1">> >>)),
      Spreadsheet(Worksheet(<< <<>>, <<"a note below an empty row 1">> >>),
                  Worksheet(<< <<"Old">>, <<"Bo", "3">> >>)) }

Init ==
    /\ repo \in Repos
    /\ sheets \in InitialSheets
    /\ initial = sheets
    /\ before = sheets
    /\ run = 0
    /\ cfg = NoConfig
    /\ pc = "idle"
    /\ exit = NotExited
    /\ msg = None
    /\ pg = NoPaginate
    /\ prs = <<>>
    /\ idx = 0
    /\ evs = <<>>
    /\ rows = <<>>
    /\ counts = <<>>
    /\ ws = None
    /\ reqs = {}
    /\ wsOps = FALSE
    /\ log = {}

(***************************************************************************)
(* How a run ends.                                                         *)
(***************************************************************************)
\* raise SystemExit(message): not an Exception, the interpreter prints the
\* message and exits with status 1
SystemExit(message) ==
    /\ pc' = "exited"
    /\ exit' = 1
    /\ msg' = message
    /\ pg' = NoPaginate

\* lines 341-345: any Exception reaches the top level, sys.exit(1)
Raise(exc) ==
    /\ pc' = "exited"
    /\ exit' = 1
    /\ log' = log \cup {exc}
    /\ pg' = NoPaginate

\* main() returns
Return ==
    /\ pc' = "exited"
    /\ exit' = 0

(***************************************************************************)
(* main, lines 290-295: a run starts, loads its configuration and asks for *)
(* the pull requests.                                                      *)
(***************************************************************************)
LoadConfiguration ==
    /\ pc \in {"idle", "exited"}
    /\ run < MaxRuns
    /\ run' = run + 1
    /\ \E env \in Envs :
          IF ConfigError(env) # None
          THEN /\ SystemExit(ConfigError(env))
               /\ cfg' = NoConfig
          ELSE /\ cfg' = Config(env)
               /\ pc' = "pulls"
               /\ pg' = NewPaginate(Endpoint("pulls", 0))
               /\ exit' = NotExited
               /\ msg' = None
    /\ prs' = <<>>
    /\ idx' = 0
    /\ evs' = <<>>
    /\ rows' = <<>>
    /\ counts' = <<>>
    /\ ws' = None
    /\ reqs' = {}
    /\ wsOps' = FALSE
    /\ log' = {}
    /\ before' = sheets
    /\ UNCHANGED <<repo, sheets, initial>>

(***************************************************************************)
(* paginate, lines 95-124: one request of the loop.                        *)
(***************************************************************************)
\* The server's answer is an error status that is not the rate-limit answer.
IsHttpError(status, remaining) == status >= 400 /\ ~(status = 403 /\ remaining = "0")

Request ==
    /\ pc \in {"pulls", "count", "events", "commits"}
    /\ pg.url # 0
    /\ ~pg.sleeping
    /\ reqs' = reqs \cup {pg.ep}
    /\ \E status \in Statuses, remaining \in Remainings :
          /\ log' = IF IsHttpError(status, remaining) THEN log \cup {"HTTP error"} ELSE log
          /\ IF IsRateLimited(status, remaining)
             THEN /\ pg' = PgRateLimited(pg)
                  /\ UNCHANGED <<pc, exit>>
             ELSE IF RaisesForStatus(status)
             THEN /\ pc' = "exited"
                  /\ exit' = 1
                  /\ pg' = NoPaginate
             ELSE /\ pg' = PgSuccess(pg, repo)
                  /\ UNCHANGED <<pc, exit>>
    /\ UNCHANGED <<repo, sheets, initial, before, run, cfg, msg, prs, idx, evs, rows,
                   counts, ws, wsOps>>

\* line 101: time.sleep returns, line 102: continue
Wake ==
    /\ pc \in {"pulls", "count", "events", "commits"}
    /\ pg.sleeping
    /\ pg' = [pg EXCEPT !.sleeping = FALSE]
    /\ UNCHANGED <<repo, sheets, initial, before, run, cfg, pc, exit, msg, prs, idx, evs,
                   rows, counts, ws, reqs, wsOps, log>>

\* line 295: list(paginate(...)) is complete
GetPullRequests ==
    /\ pc = "pulls"
    /\ pg.url = 0
    /\ prs' = pg.out
    /\ pc' = "connect"
    /\ pg' = NoPaginate
    /\ UNCHANGED <<repo, sheets, initial, before, run, cfg, exit, msg, idx, evs, rows,
                   counts, ws, reqs, wsOps, log>>

(***************************************************************************)
(* connect_sheet, lines 216-232                                            *)
(***************************************************************************)
SheetName(config) ==
    IF config.MODE = "tracker" THEN DEFAULT_TRACKER_SHEET_NAME ELSE DEFAULT_SHEET_NAME

\* GOOGLE_SERVICE_ACCOUNT_JSON (line 217) or the service account file (line 225)
Credentials == {"json", "json invalid", "file", "file missing"}

ConnectSheet ==
    /\ pc = "connect"
    /\ \E creds \in Credentials :
       LET name == SheetName(cfg)
       IN  IF creds = "json invalid"
           THEN /\ SystemExit("Invalid GOOGLE_SERVICE_ACCOUNT_JSON")
                /\ UNCHANGED <<sheets, ws, wsOps, log>>
           ELSE IF creds = "file missing"
           THEN /\ Raise("FileNotFoundError")
                /\ UNCHANGED <<sheets, ws, wsOps, msg>>
           ELSE /\ wsOps' = TRUE
                /\ \E opened \in BOOLEAN, added \in BOOLEAN :
                      IF ~opened
                      THEN /\ Raise("APIError")
                           /\ UNCHANGED <<sheets, ws, msg>>
                      ELSE IF sheets[name].exists
                      THEN /\ ws' = name
                           /\ pc' = IF cfg.MODE = "tracker" THEN "tracker_headers" ELSE "headers"
                           /\ UNCHANGED <<sheets, exit, msg, pg, log>>
                      ELSE IF ~added
                      THEN /\ pc' = "exited"
                           /\ exit' = 1
                           /\ pg' = NoPaginate
                           /\ log' = log \cup {"WorksheetNotFound", "APIError"}
                           /\ UNCHANGED <<sheets, ws, msg>>
                      ELSE /\ sheets' = [sheets EXCEPT ![name] = Worksheet(<<>>)]
                           /\ ws' = name
                           /\ log' = log \cup {"WorksheetNotFound"}
                           /\ pc' = IF cfg.MODE = "tracker" THEN "tracker_headers" ELSE "headers"
                           /\ UNCHANGED <<exit, msg, pg>>
    /\ UNCHANGED <<repo, initial, before, run, cfg, prs, idx, evs, rows, counts, reqs>>

(***************************************************************************)
(* The loops over the pull requests: the events of prs[k] are asked for,   *)
(* or the loop is over.                                                    *)
(***************************************************************************)
NextPullRequest(k, loop, after) ==
    IF k <= Len(prs)
    THEN /\ idx' = k
         /\ pc' = loop
         /\ pg' = NewPaginate(Endpoint("events", prs[k].number))
    ELSE /\ idx' = k
         /\ pc' = after
         /\ pg' = NoPaginate

(***************************************************************************)
(* main, tracker mode, lines 311-321                                       *)
(***************************************************************************)
EnsureTrackerHeaders ==
    /\ pc \in {"tracker_headers", "tracker_headers_again"}
    /\ wsOps' = TRUE
    /\ \E ok \in BOOLEAN :
          IF ~ok
          THEN /\ Raise("APIError")
               /\ UNCHANGED <<sheets, idx>>
          ELSE /\ sheets' = [sheets EXCEPT ![ws].rows = ensure_tracker_headers(@)]
               /\ IF pc = "tracker_headers"
                  THEN NextPullRequest(1, "count", "clear")
                  ELSE /\ pc' = "append"
                       /\ UNCHANGED <<idx, pg>>
               /\ UNCHANGED <<exit, log>>
    /\ UNCHANGED <<repo, initial, before, run, cfg, msg, prs, evs, rows, counts, ws, reqs>>

\* compute_tracker_counts, lines 272-285: the events of prs[idx] are in
CountPullRequest ==
    /\ pc = "count"
    /\ pg.url = 0
    /\ counts' = CountPR(counts, prs[idx], pg.out, cfg.TRACK_BY)
    /\ NextPullRequest(idx + 1, "count", "clear")
    /\ UNCHANGED <<repo, sheets, initial, before, run, cfg, exit, msg, prs, evs, rows,
                   ws, reqs, wsOps, log>>

\* line 316
Clear ==
    /\ pc = "clear"
    /\ wsOps' = TRUE
    /\ \E ok \in BOOLEAN :
          IF ~ok
          THEN /\ Raise("APIError")
               /\ UNCHANGED sheets
          ELSE /\ sheets' = [sheets EXCEPT ![ws].rows = <<>>]
               /\ pc' = "tracker_headers_again"
               /\ UNCHANGED <<exit, pg, log>>
    /\ UNCHANGED <<repo, initial, before, run, cfg, msg, prs, idx, evs, rows, counts, ws, reqs>>

(***************************************************************************)
(* main, rows mode, lines 329-337                                          *)
(***************************************************************************)
EnsureHeaders ==
    /\ pc = "headers"
    /\ wsOps' = TRUE
    /\ \E ok \in BOOLEAN :
          IF ~ok
          THEN /\ Raise("APIError")
               /\ UNCHANGED <<sheets, idx>>
          ELSE /\ sheets' = [sheets EXCEPT ![ws].rows = ensure_headers(@)]
               /\ NextPullRequest(1, "events", "append")
               /\ UNCHANGED <<exit, log>>
    /\ UNCHANGED <<repo, initial, before, run, cfg, msg, prs, evs, rows, counts, ws, reqs>>

\* summarize_pr, lines 158-180: the events of prs[idx] are in
SummarizeEvents ==
    /\ pc = "events"
    /\ pg.url = 0
    /\ evs' = pg.out
    /\ IF MarkedDoneAt(pg.out) # None
       THEN /\ pc' = "commits"
            /\ pg' = NewPaginate(Endpoint("commits", prs[idx].number))
            /\ UNCHANGED <<rows, idx>>
       ELSE /\ rows' = Append(rows, SummaryRow(prs[idx], pg.out, <<>>))
            /\ NextPullRequest(idx + 1, "events", "append")
    /\ UNCHANGED <<repo, sheets, initial, before, run, cfg, exit, msg, prs, counts,
                   ws, reqs, wsOps, log>>

\* summarize_pr, lines 181-212, and line 334: the commits of prs[idx] are in
SummarizeCommits ==
    /\ pc = "commits"
    /\ pg.url = 0
    /\ rows' = Append(rows, SummaryRow(prs[idx], evs, pg.out))
    /\ NextPullRequest(idx + 1, "events", "append")
    /\ UNCHANGED <<repo, sheets, initial, before, run, cfg, exit, msg, prs, evs, counts,
                   ws, reqs, wsOps, log>>

(***************************************************************************)
(* append_rows at the end of either mode (lines 318-321, 336-337), then    *)
(* main returns.                                                           *)
(***************************************************************************)
RowsToAppend == IF cfg.MODE = "tracker" THEN TrackerRows(counts) ELSE rows

AppendRows ==
    /\ pc = "append"
    /\ wsOps' = (wsOps \/ RowsToAppend # <<>>)
    /\ \E ok \in BOOLEAN :
          IF ~ok /\ RowsToAppend # <<>>
          THEN /\ Raise("APIError")
               /\ UNCHANGED sheets
          ELSE /\ sheets' = [sheets EXCEPT ![ws].rows = append_rows(@, RowsToAppend)]
               /\ Return
               /\ UNCHANGED <<pg, log>>
    /\ UNCHANGED <<repo, initial, before, run, cfg, msg, prs, idx, evs, rows, counts, ws, reqs>>

Next ==
    \/ LoadConfiguration
    \/ Request
    \/ Wake
    \/ GetPullRequests
    \/ ConnectSheet
    \/ EnsureTrackerHeaders
    \/ CountPullRequest
    \/ Clear
    \/ EnsureHeaders
    \/ SummarizeEvents
    \/ SummarizeCommits
    \/ AppendRows

Spec == Init /\ [][Next]_vars

\* The interpreter always runs the script's next statement and every sleep
\* ends; checked over the repositories of at most one pull request.
FairInit == Init /\ Len(repo) <= 1

FairSpec == FairInit /\ [][Next]_vars /\ WF_vars(Next)

(***************************************************************************)
(* Properties                                                              *)
(***************************************************************************)
Sheet1Rows == sheets[DEFAULT_SHEET_NAME].rows
TrackerSheetRows == sheets[DEFAULT_TRACKER_SHEET_NAME].rows

Succeeded == pc = "exited" /\ exit = 0
Fetching == pc \in {"pulls", "count", "events", "commits"}

\* C1: every configuration error aborts the run before any GitHub request is
\* sent and before any spreadsheet operation is performed.
C1_ConfigErrorAbortsBeforeAnyRequest ==
    (pc = "exited" /\ msg # None) => (reqs = {} /\ ~wsOps)

\* C2: a page request that was rate limited is re-sent a bounded number of
\* times: paginate eventually gets past it (yields the page, raises or ends).
C2_RateLimitRetryEnds ==
    (Fetching /\ pg.retries > 0) ~> (pg.retries = 0)

\* A failure the run cannot go on from: an HTTP error status from GitHub or an
\* exception of a spreadsheet operation that nothing handles.
Failures == {"HTTP error", "APIError"}

\* Once a failure has occurred the run is over with status 1, and a run that
\* is over sends no request and writes nothing.
StopsAtFailure ==
    /\ (log' \cap Failures) # (log \cap Failures) /\ log' # {}
          => (pc' = "exited" /\ exit' = 1 /\ sheets' = sheets)
    /\ (pc = "exited" /\ run' = run) => (reqs' = reqs /\ sheets' = sheets)

\* C3 as stated: exit status 0 only if no GitHub request returned an HTTP error
\* status and no spreadsheet operation raised an exception; a failure stops the
\* run there with a nonzero status.
C3_ExitZeroOnlyWithoutAnyException ==
    /\ [](Succeeded => log \cap (Failures \cup {"WorksheetNotFound"}) = {})
    /\ [][StopsAtFailure]_vars

\* C3, amended: exit status 0 only if no GitHub request returned an HTTP error
\* status and no spreadsheet operation raised an exception other than the
\* WorksheetNotFound that connect_sheet handles by adding the worksheet; any
\* other failure stops the run there with a nonzero status.
C3_ExitZeroOnlyWithoutFailure ==
    /\ [](Succeeded => log \cap Failures = {})
    /\ [](pc = "exited" /\ log \cap Failures # {} => exit = 1)
    /\ [][StopsAtFailure]_vars

C3_Witness ==
    /\ pc = "exited" /\ exit = 1
    /\ "HTTP error" \in log
    /\ "WorksheetNotFound" \in log
    /\ Endpoint("events", repo[1].number) \in reqs

\* The first review_requested event of an event list.
FirstReviewRequest(events) ==
    events[CHOOSE k \in 1..Len(events) :
              /\ events[k].event = "review_requested"
              /\ \A j \in 1..(k - 1) : events[j].event # "review_requested"]

HasReviewRequest(events) ==
    \E k \in 1..Len(events) : events[k].event = "review_requested"

\* review_requested events attributed to an account: those of the pull
\* requests it created, or those it is the actor of.
ReviewRequestsOf(account, track_by) ==
    Cardinality({ ke \in UNION { {<<k, e>> : e \in 1..Len(repo[k].events)} : k \in 1..Len(repo) } :
        /\ repo[ke[1]].events[ke[2]].event = "review_requested"
        /\ account = IF track_by = "creator" THEN repo[ke[1]].user
                     ELSE repo[ke[1]].events[ke[2]].actor })

\* pull requests with a review request attributed to an account: those it
\* created, or those whose first review request it is the actor of.
ReviewedPRsOf(account, track_by) ==
    Cardinality({ k \in 1..Len(repo) :
        /\ HasReviewRequest(repo[k].events)
        /\ account = IF track_by = "creator" THEN repo[k].user
                     ELSE FirstReviewRequest(repo[k].events).actor })

\* The tracker worksheet shows count n for the account.
Written(account, n) ==
    LET at == { r \in 2..Len(TrackerSheetRows) : TrackerSheetRows[r][1] = account }
    IN  IF n = 0 THEN at = {}
        ELSE /\ Cardinality(at) = 1
             /\ \A r \in at : TrackerSheetRows[r] = <<account, Cell(n)>>

TrackerDone == Succeeded /\ cfg.MODE = "tracker"

\* C4 as stated: the count written for an account is the number of
\* review_requested events, over all pull requests, attributed to it.
C4_CountIsNumberOfReviewRequestEvents ==
    TrackerDone => \A a \in Logins : Written(a, ReviewRequestsOf(a, cfg.TRACK_BY))

\* C4, amended: the count written for an account is the number of fetched pull
\* requests that have at least one review_requested event and are attributed
\* to it (the creator of the pull request, or the actor of its first
\* review_requested event); each such pull request counts once.
C4_CountIsNumberOfReviewedPRs ==
    TrackerDone => \A a \in Logins : Written(a, ReviewedPRsOf(a, cfg.TRACK_BY))

C4_Witness ==
    /\ TrackerDone
    /\ cfg.TRACK_BY = "requester"
    /\ Len(counts) >= 2
    /\ \E k \in 1..Len(repo) :
          /\ Len(ReviewEvents(repo[k].events)) >= 2
          /\ Written(FirstReviewRequest(repo[k].events).actor, 1)

\* The first n items of a list.
Prefix(items, n) == SubSeq(items, 1, Min(n, Len(items)))

\* C5: paginate yields every item of every page exactly once and in page
\* order: the pages answered so far are 1, 2, ..., k and what was yielded is
\* their items in order; it goes on with page k + 1 and ends only after the
\* last page; the query parameters go with the first URL only; and the request
\* re-sent after a rate-limit sleep is the request that was rate limited.
C5_PaginateYieldsEveryPageOnce ==
    Fetching =>
        LET items == ItemsOf(repo, pg.ep)
            k == Len(pg.asked)
        IN  /\ pg.asked = [p \in 1..k |-> p]
            /\ pg.out = Prefix(items, k * PageSize)
            /\ pg.url # 0 => (pg.url = k + 1 /\ (pg.params <=> pg.url = 1))
            /\ pg.url # 0 /\ k > 0 => k * PageSize < Len(items)
            /\ pg.url = 0 => (k >= 1 /\ k * PageSize >= Len(items) /\ pg.out = items)
            /\ pg.retries > 0 => pg.sent = [url |-> pg.url, params |-> pg.params]
            /\ pg.sent.url # 0 => (pg.sent.params <=> pg.sent.url = 1)

C5_Witness ==
    /\ Fetching
    /\ pg.url = 0
    /\ Len(pg.asked) >= 2
    /\ pg.ep.kind = "events"

\* The rows a rows-mode run has put below what the worksheet held when the
\* run started, the header row apart.
AppendedPRRows ==
    LET old == before[DEFAULT_SHEET_NAME].rows
        added == SubSeq(Sheet1Rows, Len(old) + 1, Len(Sheet1Rows))
    IN  IF added # <<>> /\ added[1] = Headers THEN Tail(added) ELSE added

\* C6: in rows mode the rows of the pull requests are written all or nothing:
\* what the worksheet held stays, and below it a run has appended either no
\* pull-request row or, having succeeded, one row per fetched pull request in
\* fetch order.
C6_RowsAllOrNothing ==
    cfg.MODE = "rows" =>
        /\ Prefix(Sheet1Rows, Len(before[DEFAULT_SHEET_NAME].rows))
              = before[DEFAULT_SHEET_NAME].rows
        /\ \/ AppendedPRRows = <<>>
           \/ /\ Succeeded
              /\ Len(AppendedPRRows) = Len(repo)
              /\ \A k \in 1..Len(repo) :
                    /\ Len(AppendedPRRows[k]) = 10
                    /\ AppendedPRRows[k][1] = Cell(repo[k].number)
                    /\ AppendedPRRows[k][10] = repo[k].html_url

C6_Witness ==
    /\ cfg.MODE = "rows"
    /\ pc = "exited" /\ exit = 1
    /\ "HTTP error" \in log
    /\ Len(rows) >= 1
    /\ Len(rows) < Len(repo)
    /\ AppendedPRRows = <<>>

\* The accounts a tracker run counts, by the pull requests attributed to them.
Counted(track_by) == { a \in Logins : ReviewedPRsOf(a, track_by) > 0 }

\* Rows of accounts and counts in the order of the tracker: count descending,
\* ties by lower-cased account name.
TrackerOrdered(wsRows, track_by) ==
    \A i, j \in 2..Len(wsRows) : i < j =>
        LET ci == ReviewedPRsOf(wsRows[i][1], track_by)
            cj == ReviewedPRsOf(wsRows[j][1], track_by)
        IN  \/ ci > cj
            \/ ci = cj /\ CodesLess(StrLower(Ord(wsRows[i][1])), StrLower(Ord(wsRows[j][1])))

IsFreshTracker(wsRows, track_by) ==
    /\ Len(wsRows) = 1 + Cardinality(Counted(track_by))
    /\ wsRows[1] = TrackerHeaders
    /\ \A a \in Counted(track_by) :
          \E r \in 2..Len(wsRows) : wsRows[r] = <<a, Cell(ReviewedPRsOf(a, track_by))>>
    /\ TrackerOrdered(wsRows, track_by)

\* C7: after a successful tracker run the tracker worksheet holds exactly the
\* header row [Account, Count] and one row per counted account, count
\* descending and ties by lower-cased account name, whatever it held before;
\* a worksheet that a run over the same data had left is left the same.
C7_TrackerRunReplacesSheet ==
    TrackerDone =>
        /\ IsFreshTracker(TrackerSheetRows, cfg.TRACK_BY)
        /\ IsFreshTracker(before[DEFAULT_TRACKER_SHEET_NAME].rows, cfg.TRACK_BY)
              => TrackerSheetRows = before[DEFAULT_TRACKER_SHEET_NAME].rows

C7_Witness ==
    /\ TrackerDone
    /\ run = 2
    /\ Len(initial[DEFAULT_TRACKER_SHEET_NAME].rows) > 1
    /\ Len(TrackerSheetRows) >= 3
    /\ TrackerSheetRows[2][2] # TrackerSheetRows[3][2]
    /\ TrackerSheetRows = before[DEFAULT_TRACKER_SHEET_NAME].rows

\* Number of rows of a worksheet that are the header row of the rows mode.
HeaderRows(wsRows) == Cardinality({ r \in 1..Len(wsRows) : wsRows[r] = Headers })

\* ensure_headers appends the header row if row 1 is empty, and otherwise
\* leaves the worksheet as it is.
EnsureHeadersFrame ==
    pc = "headers" =>
        sheets' = IF pc' # "exited" /\ row_values(Sheet1Rows, 1) = <<>>
                  THEN [sheets EXCEPT ![DEFAULT_SHEET_NAME].rows = Append(@, Headers)]
                  ELSE sheets

\* C8: ensure_headers never overrides an existing first row: it appends the
\* 10-column header row only when row 1 is empty and changes nothing
\* otherwise; on a worksheet that was empty before the first run the header
\* row is there at most once, as row 1 of whatever the worksheet holds; and a
\* first row that was not empty stays as it was.
C8_HeaderOnlyIntoEmptyRowOne ==
    /\ [][EnsureHeadersFrame]_vars
    /\ [](initial[DEFAULT_SHEET_NAME].rows = <<>> =>
            /\ HeaderRows(Sheet1Rows) <= 1
            /\ Sheet1Rows # <<>> => (Sheet1Rows[1] = Headers /\ Len(Sheet1Rows[1]) = 10)
            /\ cfg.MODE = "rows" /\ (pc \in {"events", "commits", "append"} \/ Succeeded)
                  => HeaderRows(Sheet1Rows) = 1)
    /\ [](row_values(initial[DEFAULT_SHEET_NAME].rows, 1) # <<>> =>
            row_values(Sheet1Rows, 1) = row_values(initial[DEFAULT_SHEET_NAME].rows, 1))

C8_Witness ==
    /\ initial[DEFAULT_SHEET_NAME].rows = <<>>
    /\ run = 2
    /\ Succeeded /\ cfg.MODE = "rows"
    /\ Len(repo) >= 1
    /\ Len(Sheet1Rows) = 1 + 2 * Len(repo)

\* Commits of a pull request dated strictly after the given timestamp.
CommitsAfter(pr, stamp) ==
    Cardinality({ c \in 1..Len(pr.commits) :
        /\ pr.commits[c] # None
        /\ isoparse(pr.commits[c]) > isoparse(stamp) })

\* C9: 'Updates After Done' of a pull request's row is the number of its
\* commits whose author date is strictly later than the created_at of its
\* first review_requested event; a pull request without such an event gets 0
\* and an empty 'Marked Done', and its commits are never asked for.
C9_UpdatesAfterDone ==
    /\ \A k \in 1..Len(rows) :
          IF HasReviewRequest(repo[k].events)
          THEN /\ rows[k][5] = FirstReviewRequest(repo[k].events).created_at
               /\ rows[k][7] = Cell(CommitsAfter(repo[k],
                                      FirstReviewRequest(repo[k].events).created_at))
          ELSE /\ rows[k][5] = None
               /\ rows[k][7] = Cell(0)
    /\ \A k \in 1..Len(repo) :
          ~HasReviewRequest(repo[k].events) => Endpoint("commits", repo[k].number) \notin reqs

C9_Witness ==
    /\ cfg.MODE = "rows"
    /\ Len(rows) = Len(repo)
    /\ \E k \in 1..Len(rows) : rows[k][7] = Cell(2)
    /\ \E k \in 1..Len(rows) : rows[k][5] # None /\ rows[k][7] = Cell(0)
    /\ \E k \in 1..Len(rows) : rows[k][5] = None

====
